---- MODULE Spec2Model ----
(***************************************************************************)
(* Model of streaming_web.py: the camera thread publishes JPEG frames into *)
(* the single-slot StreamingOutput (a frame reference guarded by a         *)
(* threading.Condition), and one handler thread per HTTP connection serves *)
(* '/', '/index.html', '/stream.mjpg' or a 404.  A streaming handler loops *)
(* over: wait on the condition, copy the frame reference, write one        *)
(* multipart part to its socket.                                           *)
(*                                                                         *)
(* Library behaviour taken as given: threading.Condition (no spurious      *)
(* wakeups in CPython; wait() registers the waiter before releasing the    *)
(* lock), BaseHTTPRequestHandler.send_response/send_header/end_headers for *)
(* an HTTP/1.x request (headers are buffered and flushed by end_headers),  *)
(* an unbuffered wfile whose write either sends all bytes or raises.       *)
(***************************************************************************)
EXTENDS Integers, Sequences, FiniteSets, TLC

\* ---- bounds of the model ----
NumConns == 2
MaxPublish == 2
MaxFrameLen == 2

\* ---- program constants ----
STREAM_WIDTH == 640
STREAM_HEIGHT == 480
\* number of characters of PAGE_TEMPLATE (all ASCII), placeholders included
PAGE_TEMPLATE_LEN == 182
\* number of characters of the placeholders "{width}" and "{height}"
WIDTH_FIELD_LEN == 7
HEIGHT_FIELD_LEN == 8
\* length of the HTML body send_error() generates (library text, opaque here)
ERROR_BODY_LEN == 1

Conns == 1..NumConns
FrameLens == 1..MaxFrameLen
Paths == {"/", "/index.html", "/stream.mjpg", "/stream", "/index.html/"}

NoOwner == 0
Producer == -1

\* a buffer object: id is the identity of the object handed to write()
\* (the ordinal of the write call), len its byte length
Buffer(i, n) == [id |-> i, len |-> n]
\* the value None of self.frame before the first write
None == Buffer(0, 0)
IsNone(f) == f.id = 0

VARIABLES
    frame,      \* output.frame
    lock,       \* owner of output.condition's lock
    waiters,    \* threads parked in output.condition.wait(), not yet notified
    pcW,        \* position of the camera thread inside StreamingOutput.write
    buf,        \* argument of the write call in progress
    nPub,       \* number of write calls started so far
    pc,         \* position of each connection's handler thread
    path,       \* self.path of each connection's request
    cur,        \* local variable 'frame' of stream_video_frames
    out,        \* what each connection has written to its socket, in order
    nwait,      \* number of condition.wait() calls each connection has made
    logged,     \* whether the handler logged 'Streaming interrupted'
    since,      \* identity of output.frame when the connection last called wait()
    peer_closed \* whether the client has closed its end of the connection

vars == <<frame, lock, waiters, pcW, buf, nPub, pc, path, cur, out, nwait, logged,
          since, peer_closed>>
sink == <<frame, lock, waiters>>
prod == <<pcW, buf, nPub>>

\* ---- what is written to a socket ----
\* one unit of output: k its kind, a/v a header's name and value, n a status
\* code or a byte count, id the identity of the buffer a body comes from
Tok(k, a, v, n, i) == [k |-> k, a |-> a, v |-> v, n |-> n, id |-> i]
StatusLine(code) == Tok("status", "", "", code, 0)
Header(name, value) == Tok("hdr", name, value, 0, 0)
\* send_header('Content-Length', n): the value is the decimal text of n
ContentLength(n) == Tok("clen", "Content-Length", "", n, 0)
Blank == Tok("blank", "", "", 0, 0)
Boundary == Tok("boundary", "--FRAME", "", 0, 0)
Body(b) == Tok("body", "", "", b.len, b.id)
CRLF == Tok("crlf", "", "", 0, 0)

\* send_response(code): status line, then the Server and Date headers
send_response(code) ==
    <<StatusLine(code), Header("Server", "*"), Header("Date", "*")>>

RECURSIVE Digits(_)
\* number of characters of str(n) for n >= 0
Digits(n) == IF n < 10 THEN 1 ELSE 1 + Digits(n \div 10)

\* len(PAGE_TEMPLATE.format(width=w, height=h).encode('utf-8'))
ContentLen(w, h) ==
    PAGE_TEMPLATE_LEN - WIDTH_FIELD_LEN - HEIGHT_FIELD_LEN + Digits(w) + Digits(h)

\* the Content-Length handle_index_page announces
IndexAnnouncedLen == ContentLen(STREAM_WIDTH, STREAM_HEIGHT)

\* the no-cache headers with the Pragma header forgotten
send_no_cache_headers_NoPragma ==
    <<Header("Age", "0"),
      Header("Cache-Control", "no-cache, private")>>

send_no_cache_headers ==
    <<Header("Age", "0"),
      Header("Cache-Control", "no-cache, private"),
      Header("Pragma", "no-cache")>>

\* the response head handle_mjpeg_stream writes before the loop
StreamHead ==
    send_response(200)
    \o send_no_cache_headers
    \o <<Header("Content-Type", "multipart/x-mixed-replace; boundary=FRAME")>>
    \o <<Blank>>

RedirectResponse ==
    send_response(301) \o <<Header("Location", "/index.html")>> \o <<Blank>>

IndexResponse ==
    send_response(200)
    \o <<Header("Content-Type", "text/html")>>
    \o <<ContentLength(IndexAnnouncedLen)>>
    \o <<Blank>>
    \o <<Body(Buffer(0, ContentLen(STREAM_WIDTH, STREAM_HEIGHT)))>>

\* send_error(404): error status, its own headers and a short HTML body
ErrorResponse ==
    send_response(404)
    \o <<Header("Connection", "close"),
         Header("Content-Type", "text/html;charset=utf-8"),
         ContentLength(ERROR_BODY_LEN)>>
    \o <<Blank>>
    \o <<Body(Buffer(0, ERROR_BODY_LEN))>>

\* do_GET dispatching on the beginning of the path instead of the whole path
Route_Prefix(p) ==
    IF p = "/" THEN "redirect"
    ELSE IF p \in {"/index.html", "/index.html/"} THEN "index"
    ELSE IF p \in {"/stream.mjpg", "/stream"} THEN "stream"
    ELSE "notfound"

\* do_GET with the stream as the final else branch
Route_StreamElse(p) ==
    IF p = "/" THEN "redirect"
    ELSE IF p = "/index.html" THEN "index"
    ELSE "stream"

\* the dispatch of do_GET
Route(p) ==
    IF p = "/" THEN "redirect"
    ELSE IF p = "/index.html" THEN "index"
    ELSE IF p = "/stream.mjpg" THEN "stream"
    ELSE "notfound"

\* the two send_header calls of a part in the opposite order
PartHeaders_Swapped(f) ==
    <<ContentLength(f.len), Header("Content-Type", "image/jpeg"), Blank>>

\* the part headers flushed by end_headers for the local frame f
PartHeaders(f) ==
    <<Header("Content-Type", "image/jpeg"), ContentLength(f.len), Blank>>

\* line 119 writing output.frame instead of the local copy
BodySource_Sink(c) == frame

\* the object whose bytes line 119 writes: the local variable 'frame'
BodySource(c) == cur[c]

\* write() assigning a local name instead of self.frame
FrameStored_Dropped(b) == frame

\* write() storing a buffer only while the slot is empty
FrameStored_KeepFirst(b) == IF IsNone(frame) THEN b ELSE frame

\* the value write() stores into self.frame
FrameStored(b) == b

\* notify() in place of notify_all(): one waiter is released
NotifyAll_One(ws) == IF ws = {} THEN {} ELSE {CHOOSE w \in ws : TRUE}

\* the threads notify_all releases
NotifyAll(ws) == ws

\* the block left without releasing the lock
LockAfterWith_Kept(c) == c

\* the lock owner once the 'with output.condition' block is left
LockAfterWith(c) == NoOwner

\* a wait that keeps the lock while the thread is parked
LockWhileParked_Kept(c) == c

\* the lock owner while a thread is parked in output.condition.wait()
LockWhileParked(c) == NoOwner

\* the exception handled inside the loop, which then goes on
AfterFailure_Retry(c) == "enter"

\* where the handler thread is after an exception inside the try block
AfterFailure(c) == "closed"

\* a wait that returns at once, without a notification (a zero timeout)
WaitOutcome_Timeout(c) == "woken"

\* a wait skipped when the slot already holds a frame
WaitOutcome_IfEmpty(c) == IF IsNone(frame) THEN "parked" ELSE "take"

\* how output.condition.wait() leaves the calling thread: parked until notified
WaitOutcome(c) == "parked"

\* a reader that empties the slot when it takes the frame
SlotAfterTake_Cleared(c) == None

\* output.frame after a reader has copied the reference: untouched
SlotAfterTake(c) == frame

\* request handling without ThreadingMixIn: one request at a time
CanHandle_Serial(c) == \A d \in Conns \ {c} : pc[d] \in {"accept", "done", "closed"}

\* ThreadingMixIn: every accepted request gets a handler thread of its own
CanHandle(c) == TRUE

\* the connections that have been handed to handle_mjpeg_stream
Streaming == {c \in Conns : pc[c] # "accept" /\ Route(path[c]) = "stream"}

\* the wait placed before the loop instead of inside it
NextIteration_NoWait(c) == "boundary"

\* where the loop goes after the trailing CRLF of a part
NextIteration(c) == "enter"

Init ==
    /\ frame = None
    /\ lock = NoOwner
    /\ waiters = {}
    /\ pcW = "idle"
    /\ buf = None
    /\ nPub = 0
    /\ pc = [c \in Conns |-> "accept"]
    /\ path = [c \in Conns |-> ""]
    /\ cur = [c \in Conns |-> None]
    /\ out = [c \in Conns |-> <<>>]
    /\ nwait = [c \in Conns |-> 0]
    /\ logged = [c \in Conns |-> FALSE]
    /\ since = [c \in Conns |-> 0]
    /\ peer_closed = [c \in Conns |-> FALSE]

\* ---- StreamingOutput.write, called by the camera thread ----
write_call(n) ==
    /\ pcW = "idle"
    /\ nPub < MaxPublish
    /\ nPub' = nPub + 1
    /\ buf' = Buffer(nPub + 1, n)
    /\ pcW' = "acquire"
    /\ UNCHANGED <<frame, lock, waiters, pc, path, cur, out, nwait, logged, since, peer_closed>>

write_acquire ==
    /\ pcW = "acquire"
    /\ lock = NoOwner
    /\ lock' = Producer
    /\ pcW' = "set"
    /\ UNCHANGED <<frame, waiters, buf, nPub, pc, path, cur, out, nwait, logged, since, peer_closed>>

write_set_frame ==
    /\ pcW = "set"
    /\ frame' = FrameStored(buf)
    /\ pcW' = "notify"
    /\ UNCHANGED <<lock, waiters, buf, nPub, pc, path, cur, out, nwait, logged, since, peer_closed>>

write_notify_all ==
    /\ pcW = "notify"
    /\ LET woken == NotifyAll(waiters) IN
        /\ waiters' = waiters \ woken
        /\ pc' = [c \in Conns |-> IF c \in woken THEN "woken" ELSE pc[c]]
    /\ pcW' = "release"
    /\ UNCHANGED <<frame, lock, buf, nPub, path, cur, out, nwait, logged, since, peer_closed>>

write_release ==
    /\ pcW = "release"
    /\ lock' = NoOwner
    /\ pcW' = "idle"
    /\ buf' = None
    /\ UNCHANGED <<frame, waiters, nPub, pc, path, cur, out, nwait, logged, since, peer_closed>>

\* ---- StreamingHandler.do_GET and the handlers it dispatches to ----
redirect_to_index(c, p) ==
    /\ pc[c] = "accept"
    /\ CanHandle(c)
    /\ Route(p) = "redirect"
    /\ path' = [path EXCEPT ![c] = p]
    /\ out' = [out EXCEPT ![c] = @ \o RedirectResponse]
    /\ pc' = [pc EXCEPT ![c] = "done"]
    /\ UNCHANGED <<sink, prod, cur, nwait, logged, since, peer_closed>>

handle_index_page(c, p) ==
    /\ pc[c] = "accept"
    /\ CanHandle(c)
    /\ Route(p) = "index"
    /\ path' = [path EXCEPT ![c] = p]
    /\ out' = [out EXCEPT ![c] = @ \o IndexResponse]
    /\ pc' = [pc EXCEPT ![c] = "done"]
    /\ UNCHANGED <<sink, prod, cur, nwait, logged, since, peer_closed>>

send_error_404(c, p) ==
    /\ pc[c] = "accept"
    /\ CanHandle(c)
    /\ Route(p) = "notfound"
    /\ path' = [path EXCEPT ![c] = p]
    /\ out' = [out EXCEPT ![c] = @ \o ErrorResponse]
    /\ pc' = [pc EXCEPT ![c] = "done"]
    /\ UNCHANGED <<sink, prod, cur, nwait, logged, since, peer_closed>>

handle_mjpeg_stream(c, p) ==
    /\ pc[c] = "accept"
    /\ CanHandle(c)
    /\ Route(p) = "stream"
    /\ path' = [path EXCEPT ![c] = p]
    /\ out' = [out EXCEPT ![c] = @ \o StreamHead]
    /\ pc' = [pc EXCEPT ![c] = "enter"]
    /\ UNCHANGED <<sink, prod, cur, nwait, logged, since, peer_closed>>

\* the first socket write of a response fails: the exception leaves do_GET
\* and the handler thread ends without having written anything
response_write_fails(c, p) ==
    /\ pc[c] = "accept"
    /\ CanHandle(c)
    /\ path' = [path EXCEPT ![c] = p]
    /\ pc' = [pc EXCEPT ![c] = "closed"]
    /\ UNCHANGED <<sink, prod, cur, out, nwait, logged, since, peer_closed>>

do_GET(c, p) ==
    \/ redirect_to_index(c, p)
    \/ handle_index_page(c, p)
    \/ handle_mjpeg_stream(c, p)
    \/ send_error_404(c, p)
    \/ response_write_fails(c, p)

\* ---- StreamingHandler.stream_video_frames ----
\* 'with output.condition:' acquires the lock
svf_enter(c) ==
    /\ pc[c] = "enter"
    /\ lock = NoOwner
    /\ lock' = c
    /\ pc' = [pc EXCEPT ![c] = "locked"]
    /\ UNCHANGED <<frame, waiters, prod, path, cur, out, nwait, logged, since, peer_closed>>

\* output.condition.wait(): register as waiter, release the lock, park
svf_wait(c) ==
    /\ pc[c] = "locked"
    /\ lock = c
    /\ nwait' = [nwait EXCEPT ![c] = @ + 1]
    /\ since' = [since EXCEPT ![c] = frame.id]
    /\ pc' = [pc EXCEPT ![c] = WaitOutcome(c)]
    /\ waiters' = IF WaitOutcome(c) = "parked" THEN waiters \cup {c} ELSE waiters
    /\ lock' = IF WaitOutcome(c) = "take" THEN c ELSE LockWhileParked(c)
    /\ UNCHANGED <<frame, prod, path, cur, out, logged, peer_closed>>

\* wait() returns: the notified thread takes the lock again
svf_wakeup(c) ==
    /\ pc[c] = "woken"
    /\ lock = NoOwner
    /\ lock' = c
    /\ pc' = [pc EXCEPT ![c] = "take"]
    /\ UNCHANGED <<frame, waiters, prod, path, cur, out, nwait, logged, since, peer_closed>>

\* frame = output.frame, then the with block is left
svf_take(c) ==
    /\ pc[c] = "take"
    /\ lock = c
    /\ cur' = [cur EXCEPT ![c] = frame]
    /\ frame' = SlotAfterTake(c)
    /\ lock' = LockAfterWith(c)
    /\ pc' = [pc EXCEPT ![c] = "boundary"]
    /\ UNCHANGED <<waiters, prod, path, out, nwait, logged, since, peer_closed>>

\* self.wfile.write(b'--FRAME\r\n')
svf_boundary(c) ==
    /\ pc[c] = "boundary"
    /\ out' = [out EXCEPT ![c] = Append(@, Boundary)]
    /\ pc' = [pc EXCEPT ![c] = "headers"]
    /\ UNCHANGED <<sink, prod, path, cur, nwait, logged, since, peer_closed>>

\* the two send_header calls and end_headers; len(None) raises TypeError
svf_headers(c) ==
    /\ pc[c] = "headers"
    /\ IF IsNone(cur[c])
       THEN /\ pc' = [pc EXCEPT ![c] = AfterFailure(c)]
            /\ logged' = [logged EXCEPT ![c] = TRUE]
            /\ out' = out
       ELSE /\ out' = [out EXCEPT ![c] = @ \o PartHeaders(cur[c])]
            /\ pc' = [pc EXCEPT ![c] = "body"]
            /\ logged' = logged
    /\ UNCHANGED <<sink, prod, path, cur, nwait, since, peer_closed>>

\* self.wfile.write(frame)
svf_body(c) ==
    /\ pc[c] = "body"
    /\ out' = [out EXCEPT ![c] = Append(@, Body(BodySource(c)))]
    /\ pc' = [pc EXCEPT ![c] = "crlf"]
    /\ UNCHANGED <<sink, prod, path, cur, nwait, logged, since, peer_closed>>

\* self.wfile.write(b'\r\n'), then the next iteration of the loop
svf_crlf(c) ==
    /\ pc[c] = "crlf"
    /\ out' = [out EXCEPT ![c] = Append(@, CRLF)]
    /\ pc' = [pc EXCEPT ![c] = NextIteration(c)]
    /\ UNCHANGED <<sink, prod, path, cur, nwait, logged, since, peer_closed>>

WritePcs == {"boundary", "headers", "body", "crlf"}

\* the positions of a handler thread inside stream_video_frames' loop
StreamPcs == {"enter", "locked", "parked", "woken", "take"} \cup WritePcs

\* a socket write of the part raises (peer gone): except clause, warning
svf_write_fails(c) ==
    /\ pc[c] \in WritePcs
    /\ pc' = [pc EXCEPT ![c] = AfterFailure(c)]
    /\ logged' = [logged EXCEPT ![c] = TRUE]
    /\ UNCHANGED <<sink, prod, path, cur, out, nwait, since, peer_closed>>

\* the client closes its end while its request is being streamed; nothing
\* in the handler looks at the socket except the writes of a part
client_close(c) ==
    /\ pc[c] \in StreamPcs
    /\ ~peer_closed[c]
    /\ peer_closed' = [peer_closed EXCEPT ![c] = TRUE]
    /\ UNCHANGED <<sink, prod, pc, path, cur, out, nwait, logged, since>>

stream_video_frames(c) ==
    \/ svf_enter(c)
    \/ svf_wait(c)
    \/ svf_wakeup(c)
    \/ svf_take(c)
    \/ svf_boundary(c)
    \/ svf_headers(c)
    \/ svf_body(c)
    \/ svf_crlf(c)
    \/ svf_write_fails(c)

write ==
    \/ \E n \in FrameLens : write_call(n)
    \/ write_acquire
    \/ write_set_frame
    \/ write_notify_all
    \/ write_release

Next ==
    \/ write
    \/ \E c \in Conns, p \in Paths : do_GET(c, p)
    \/ \E c \in Conns : stream_video_frames(c)
    \/ \E c \in Conns : client_close(c)

Spec == Init /\ [][Next]_vars

\* Scheduling assumed for liveness: the camera thread and a handler thread
\* that holds or requests the lock keep running, and the lock is granted
\* fairly.  Nothing is assumed about socket writes (a peer may stall them
\* forever), about new requests, or about the camera producing frames.
FairSpec ==
    /\ Spec
    /\ SF_vars(write_acquire)
    /\ WF_vars(write_set_frame)
    /\ WF_vars(write_notify_all)
    /\ WF_vars(write_release)
    /\ \A c \in Conns :
        /\ WF_vars(svf_wait(c))
        /\ SF_vars(svf_wakeup(c))
        /\ WF_vars(svf_take(c))

\* FairSpec for clients that keep reading: a socket write that does not fail
\* returns, so a handler thread inside a part goes on (or fails).
FairSendSpec ==
    /\ FairSpec
    /\ \A c \in Conns :
        /\ WF_vars(svf_boundary(c))
        /\ WF_vars(svf_headers(c))
        /\ WF_vars(svf_body(c))

\* ---- reading a connection's output ----
\* the identities of the frames whose bytes connection c has sent, in order
SentIds(c) ==
    LET bodies == SelectSeq(out[c], LAMBDA t : t.k = "body" /\ t.id > 0)
    IN [i \in DOMAIN bodies |-> bodies[i].id]

\* what connection c has written after the head of the stream response
PartsOf(c) == SubSeq(out[c], Len(StreamHead) + 1, Len(out[c]))

CountKind(s, k) == Len(SelectSeq(s, LAMBDA t : t.k = k))

\* the ordinal of the last write call that has stored its buffer
LatestPublished == IF pcW \in {"acquire", "set"} THEN nPub - 1 ELSE nPub

\* ---- C1 ----
\* C1: on every connection the frames sent are, in publish order, strictly
\* increasing: no frame is sent twice and none after a newer one.
C1_SentStrictlyIncreasing ==
    \A c \in Conns :
        \A i, j \in DOMAIN SentIds(c) : i < j => SentIds(c)[i] < SentIds(c)[j]

\* a connection has sent two frames
C1_Witness ==
    \E c \in Conns : Len(SentIds(c)) >= 2

\* ---- C2 ----
\* C2: a reader that has already received a frame is never left parked in the
\* wait while a newer frame exists and no publish is in progress: publishes
\* that happened while it was not waiting make its next wait return at once.
C2_NoLostWakeup ==
    \A c \in Conns :
        (c \in waiters /\ pcW = "idle" /\ ~IsNone(cur[c])) => frame.id = cur[c].id

\* ---- C3 ----
\* C3: whenever a reader copies the frame after its wait, it gets the buffer
\* of the most recent publish at that moment, however many publishes ran
\* since its previous delivery.
C3_TakesLatest ==
    [][\A c \in Conns :
        (pc[c] = "take" /\ pc'[c] = "boundary") =>
            (cur'[c].id = LatestPublished /\ cur'[c].id > 0)]_vars

\* a reader's first delivery is frame 2: frame 1 was overwritten before the
\* reader, woken by the first publish, got the lock back
C3_Witness ==
    \E c \in Conns : nwait[c] = 1 /\ pc[c] = "boundary" /\ cur[c].id = 2

\* ---- C4 ----
\* C4: a publish that has started always completes, whatever the readers do
\* (parked, stuck in a socket write, closed).
C4_PublishCompletes ==
    (pcW # "idle") ~> (pcW = "idle")

\* a second publish is about to finish while one connection sits in the
\* socket write of a frame body and another has been closed by a failure
C4_Witness ==
    /\ pcW = "release"
    /\ nPub = 2
    /\ \E c, d \in Conns : pc[c] = "body" /\ logged[d] /\ pc[d] = "closed"

\* ---- C5 ----
\* C5: a write failure on one connection changes neither the sink nor the
\* producer nor any other connection, and a connection that is in the wait
\* when a publish runs after that failure still gets the current frame.
C5_Isolation ==
    /\ [][\A d \in Conns :
            (~logged[d] /\ logged'[d]) =>
                /\ UNCHANGED <<frame, lock, waiters, pcW, buf, nPub>>
                /\ \A c \in Conns \ {d} :
                    UNCHANGED <<pc[c], cur[c], out[c], nwait[c], logged[c]>>]_vars
    /\ \A c \in Conns :
        ((\E d \in Conns \ {c} : logged[d])
            /\ ((c \in waiters /\ pcW # "idle") \/ pc[c] = "woken"))
        ~> (pc[c] = "boundary" /\ cur[c] = frame /\ ~IsNone(cur[c]))

\* one connection has failed, and the other one, parked at that time, has
\* since taken the frame of a later publish
C5_Witness ==
    \E c, d \in Conns :
        /\ c # d
        /\ logged[d]
        /\ SentIds(d) = <<1>>
        /\ pc[c] = "boundary"
        /\ cur[c].id = 2

\* ---- C6 ----
\* C6: in every part, the Content-Length header carries the byte length of
\* the frame bytes written after the part headers.
C6_ContentLengthMatches ==
    \A c \in Conns :
        \A i \in DOMAIN out[c] :
            (out[c][i].k = "body" /\ out[c][i].id > 0) =>
                /\ i > 2
                /\ out[c][i - 2].k = "clen"
                /\ out[c][i - 2].n = out[c][i].n

\* a body has just been written while the sink already holds a different
\* frame of another length
C6_Witness ==
    \E c \in Conns :
        /\ pc[c] = "crlf"
        /\ frame.id # cur[c].id
        /\ frame.len # cur[c].len

\* ---- C7 ----
\* C7: after the response head, a connection's output is a sequence of parts
\* written in the order boundary, Content-Type: image/jpeg, Content-Length,
\* blank line, frame bytes, CRLF; a part starts only after the previous
\* part's CRLF.
PartOrder == <<"boundary", "hdr", "clen", "blank", "body", "crlf">>

C7_PartFraming ==
    \A c \in Streaming :
        \A i \in DOMAIN PartsOf(c) :
            LET t == PartsOf(c)[i]
                pos == ((i - 1) % 6) + 1
            IN  /\ t.k = PartOrder[pos]
                /\ (pos = 1) => t.a = "--FRAME"
                /\ (pos = 2) => (t.a = "Content-Type" /\ t.v = "image/jpeg")
                /\ (pos = 3) => t.a = "Content-Length"
                /\ (pos = 5) => t.id > 0

\* a connection has written two complete parts
C7_Witness ==
    \E c \in Streaming : Len(PartsOf(c)) = 12

\* ---- C8 ----
\* C8: the path alone decides the response: '/' gives 301 with Location:
\* /index.html, '/index.html' gives 200 with Content-Type: text/html and a
\* Content-Length equal to the length of the body sent, '/stream.mjpg' starts
\* the multipart stream, any other path gives 404 and starts no stream.
HasHeader(s, name, value) ==
    \E i \in DOMAIN s : s[i].k = "hdr" /\ s[i].a = name /\ s[i].v = value

C8_Routing ==
    \A c \in Conns :
        out[c] # <<>> =>
            /\ out[c][1].k = "status"
            /\ (path[c] = "/") =>
                /\ out[c][1].n = 301
                /\ HasHeader(out[c], "Location", "/index.html")
                /\ nwait[c] = 0
            /\ (path[c] = "/index.html") =>
                /\ out[c][1].n = 200
                /\ HasHeader(out[c], "Content-Type", "text/html")
                /\ \E i, j \in DOMAIN out[c] :
                    /\ i < j
                    /\ j = Len(out[c])
                    /\ out[c][i].k = "clen"
                    /\ out[c][j].k = "body"
                    /\ out[c][i].n = out[c][j].n
                    /\ out[c][j].n = 173  \* bytes of the page as Python renders it
                /\ nwait[c] = 0
            /\ (path[c] = "/stream.mjpg") =>
                /\ out[c][1].n = 200
                /\ HasHeader(out[c], "Content-Type",
                             "multipart/x-mixed-replace; boundary=FRAME")
                /\ pc[c] # "done"
            /\ (path[c] \notin {"/", "/index.html", "/stream.mjpg"}) =>
                /\ out[c][1].n = 404
                /\ pc[c] = "done"
                /\ nwait[c] = 0
                /\ CountKind(out[c], "boundary") = 0

\* an unknown path that begins like the stream's path has been answered,
\* and so has the index page
C8_Witness ==
    \E c, d \in Conns :
        /\ path[c] = "/stream" /\ pc[c] = "done"
        /\ path[d] = "/index.html" /\ pc[d] = "done"

\* ---- C9 ----
\* C9: a streaming connection writes the response head (200, Age: 0,
\* Cache-Control: no-cache, private, Pragma: no-cache, Content-Type:
\* multipart/x-mixed-replace; boundary=FRAME) exactly once, before its first
\* wait and before any part, and each part follows exactly one wait.
C9_StreamStateMachine ==
    \A c \in Streaming :
        /\ (nwait[c] > 0 \/ pc[c] # "closed") => out[c] # <<>>
        /\ out[c] # <<>> =>
            /\ CountKind(out[c], "status") = 1
            /\ out[c][1].k = "status" /\ out[c][1].n = 200
            /\ \E b \in DOMAIN out[c] :
                /\ out[c][b].k = "blank"
                /\ \A i \in 1..b : out[c][i].k \in {"status", "hdr", "blank"}
                /\ LET head == SubSeq(out[c], 1, b) IN
                    /\ HasHeader(head, "Age", "0")
                    /\ HasHeader(head, "Cache-Control", "no-cache, private")
                    /\ HasHeader(head, "Pragma", "no-cache")
                    /\ HasHeader(head, "Content-Type",
                                 "multipart/x-mixed-replace; boundary=FRAME")
                    /\ CountKind(head, "blank") = 1
                /\ \A i \in (b + 1)..Len(out[c]) :
                    ~(out[c][i].k = "hdr" /\ out[c][i].a \in {"Age", "Cache-Control", "Pragma"})
            /\ LET parts == CountKind(out[c], "boundary") IN
                IF pc[c] \in {"parked", "woken", "take", "boundary"}
                THEN parts = nwait[c] - 1
                ELSE IF pc[c] = "closed"
                THEN parts \in {nwait[c] - 1, nwait[c]}
                ELSE parts = nwait[c]

\* a connection is in its second wait after one complete part
C9_Witness ==
    \E c \in Streaming :
        pc[c] = "parked" /\ nwait[c] = 2 /\ CountKind(out[c], "boundary") = 1

\* ---- C10 ----
\* C10: a failure while sending a part takes the connection straight to
\* CLOSED, and from then on it writes nothing, never waits and never takes
\* a frame.
C10_FailureCloses ==
    [][\A c \in Conns :
        /\ logged'[c] => (pc'[c] = "closed" /\ c \notin waiters' /\ lock' # c)
        /\ logged[c] =>
            /\ logged'[c]
            /\ out'[c] = out[c]
            /\ nwait'[c] = nwait[c]
            /\ cur'[c] = cur[c]]_vars

\* a connection failed on the trailing CRLF of a part and a publish has
\* started since
C10_Witness ==
    \E c \in Conns :
        /\ logged[c]
        /\ pc[c] = "closed"
        /\ out[c] # <<>>
        /\ out[c][Len(out[c])].k = "body"
        /\ cur[c].id < nPub

\* ---- C11 ----
\* C11: when the client closes the connection while the handler thread is
\* parked in the wait, the thread is unblocked: it can go on by itself
\* towards CLOSED, without a further publish.
C11_CloseUnblocks ==
    \A c \in Conns :
        (peer_closed[c] /\ pc[c] = "parked") => ENABLED stream_video_frames(c)

\* ---- C12 ----
\* C12: while streaming connections are parked in the wait or sit in a
\* socket write, a new connection is still accepted and a request for '/',
\* '/index.html', an unknown path or the stream is handled at once, whether
\* or not the producer has published anything.
C12_OthersNotBlocked ==
    \A c \in Conns :
        (pc[c] = "accept" /\ \E d \in Conns : pc[d] \in {"parked"} \cup WritePcs) =>
            /\ ENABLED redirect_to_index(c, "/")
            /\ ENABLED handle_index_page(c, "/index.html")
            /\ ENABLED send_error_404(c, "/stream")
            /\ ENABLED handle_mjpeg_stream(c, "/stream.mjpg")

\* the index page has been served although nothing was ever published and
\* the other connection is parked in its first wait
C12_Witness ==
    \E c, d \in Conns :
        /\ pc[d] = "parked"
        /\ nPub = 0
        /\ pc[c] = "done"
        /\ path[c] = "/index.html"
        /\ out[c] = IndexResponse

\* ---- C13 ----
\* C13: the notification of a publish releases every connection parked at
\* that moment, none stays parked, and each of them goes on to send that
\* frame or a later one unless a write to its client fails.
C13_WakesAll ==
    /\ [][(pcW = "notify" /\ pcW' = "release") =>
            (waiters' = {} /\ \A c \in waiters : pc'[c] = "woken")]_vars
    /\ \A c \in Conns : \A n \in 1..MaxPublish :
        (c \in waiters /\ pcW = "notify" /\ frame.id = n)
        ~> (logged[c] \/ \E i \in DOMAIN SentIds(c) : SentIds(c)[i] >= n)

\* both connections were parked at the first publish and both have sent
\* its frame
C13_Witness ==
    \E c, d \in Conns :
        /\ c # d
        /\ nwait[c] = 1 /\ nwait[d] = 1
        /\ SentIds(c) = <<1>> /\ SentIds(d) = <<1>>

\* ---- C14 ----
\* C14: only the storing step of a publish changes the slot, and it stores
\* the buffer passed to that publish; the count of publishes never goes down;
\* once a publish has stored, the slot holds the buffer of the latest one,
\* whatever the readers do.
C14_SinkInvariant ==
    [][/\ (frame' # frame) => (pcW = "set" /\ pcW' = "notify" /\ frame' = buf)
       /\ nPub' >= nPub
       /\ (LatestPublished' >= 1) => (frame'.id = LatestPublished')]_vars

\* the slot holds the second buffer after one reader has closed on a failure
\* and another has copied a frame and written its bytes
C14_Witness ==
    /\ frame.id = 2
    /\ \E c, d \in Conns : logged[c] /\ pc[c] = "closed" /\ pc[d] = "crlf"

\* ---- C15 ----
\* C15: a connection never sends the frame that was in the slot when it
\* began to wait: the frame it copies after a wait, and so the first part it
\* sends, was stored after that wait began; as long as nothing is stored
\* after its first wait began, it sends no part.
C15_StartsAtSubscription ==
    \A c \in Streaming :
        /\ pc[c] \in WritePcs => cur[c].id > since[c]
        /\ (nwait[c] = 1 /\ SentIds(c) # <<>>) => SentIds(c)[1] > since[c]
        /\ (nwait[c] = 0 \/ (nwait[c] = 1 /\ frame.id = since[c])) =>
              CountKind(out[c], "boundary") = 0

\* a connection that began to wait when frame 1 was current has sent frame 2
\* as its first part
C15_Witness ==
    \E c \in Streaming : nwait[c] = 1 /\ since[c] = 1 /\ SentIds(c) = <<2>>

\* ---- C16 ----
\* C16: a connection that has entered the wait leaves it only through the
\* notification of a publish; while parked it writes nothing, logs nothing
\* and does not close, however long no publish comes.
C16_WaitsUntilPublish ==
    [][\A c \in Conns :
        /\ (pc[c] \in {"locked", "parked"} /\ pc'[c] \notin {"locked", "parked"}) =>
              /\ pc[c] = "parked"
              /\ pcW = "notify" /\ pcW' = "release"
              /\ pc'[c] = "woken"
        /\ (pc[c] = "parked") =>
              (out'[c] = out[c] /\ logged'[c] = logged[c] /\ cur'[c] = cur[c])]_vars

\* a connection is parked in its second wait, its client has gone and the
\* producer is idle
C16_Witness ==
    \E c \in Conns :
        pc[c] = "parked" /\ nwait[c] = 2 /\ peer_closed[c] /\ pcW = "idle"

\* ---- C17 ----
\* C17: what a connection copies from the slot after its wait is never the
\* empty initial value: it is a buffer some publish stored, also for a
\* connection that began to wait before the first publish, and no part is
\* built from the empty slot.
C17_NeverTakesEmptySlot ==
    \A c \in Conns :
        /\ pc[c] \in WritePcs => (~IsNone(cur[c]) /\ cur[c].id \in 1..nPub)
        /\ \A i \in DOMAIN out[c] : out[c][i].k = "clen" => out[c][i].n > 0
        /\ (logged[c] /\ pc[c] = "closed") => ~IsNone(cur[c])

\* a connection that began to wait before anything was published has sent
\* the first frame
C17_Witness ==
    \E c \in Conns : nwait[c] = 1 /\ since[c] = 0 /\ SentIds(c) = <<1>>

\* ---- C18 ----
\* C18 as claimed: the lock is held only by the producer inside publish or
\* by a reader between waking up and copying the frame reference.
C18_HeldOnlyAfterWakeup ==
    /\ (lock = Producer) => pcW \in {"set", "notify", "release"}
    /\ \A c \in Conns : (lock = c) => pc[c] = "take"

\* C18 as amended: the lock is held only by the producer inside publish, by
\* a reader between entering the with block and parking in the wait, or by a
\* reader between waking up and copying the frame reference; never by a
\* connection that is parked, writing to its socket or closed; and whoever
\* holds it can take its next step, so producer and readers do not deadlock.
C18_LockDiscipline ==
    /\ (lock = Producer) <=> pcW \in {"set", "notify", "release"}
    /\ \A c \in Conns :
        /\ (lock = c) <=> pc[c] \in {"locked", "take"}
        /\ (lock = c) => ENABLED stream_video_frames(c)
    /\ (lock = Producer) => ENABLED write

\* the producer waits for the lock while a reader holds it before its wait,
\* and the other connection has closed on a failure
C18_Witness ==
    \E c, d \in Conns :
        /\ lock = c
        /\ pc[c] = "locked"
        /\ pcW = "acquire"
        /\ logged[d] /\ pc[d] = "closed"

\* ---- C19 ----
\* C19: a request for '/', '/index.html' or an unknown path is answered
\* whether or not a frame was ever published; handling it never takes the
\* lock, never waits, never reads the slot, and leaves the sink, the producer
\* and every other connection as they were.
C19_PlainRequestsLeaveSink ==
    /\ [](\A c \in Conns :
            (path[c] \notin {"", "/stream.mjpg"}) =>
                /\ pc[c] \in {"done", "closed"}
                /\ lock # c
                /\ c \notin waiters
                /\ nwait[c] = 0
                /\ IsNone(cur[c])
                /\ ~logged[c])
    /\ [][\A c \in Conns :
            (path[c] = "" /\ path'[c] \notin {"", "/stream.mjpg"}) =>
                /\ UNCHANGED <<frame, lock, waiters, pcW, buf, nPub>>
                /\ \A d \in Conns \ {c} :
                    /\ pc'[d] = pc[d] /\ cur'[d] = cur[d] /\ out'[d] = out[d]
                    /\ nwait'[d] = nwait[d] /\ since'[d] = since[d]]_vars
    /\ [](\A c \in Conns :
            pc[c] = "accept" =>
                /\ ENABLED redirect_to_index(c, "/")
                /\ ENABLED handle_index_page(c, "/index.html")
                /\ ENABLED send_error_404(c, "/index.html/"))

\* an unknown path has been answered with nothing ever published, while the
\* other connection holds the lock on its way into the wait
C19_Witness ==
    \E c, d \in Conns :
        /\ path[c] = "/index.html/" /\ pc[c] = "done"
        /\ nPub = 0
        /\ lock = d

====
